---- MODULE Spec2Model ----
(***************************************************************************)
(* Model of src/src/html/interpreter/interpreter.js: the recursive         *)
(* Brainfuck parser `parse` and the tape evaluator `eval`.                 *)
(*                                                                         *)
(* One behaviour is one call: `call` says which function was invoked on    *)
(* the source text `blob`.  `eval` is modelled one switch dispatch (or one *)
(* do-while iteration of a balance scan) per step; `parse` is modelled     *)
(* with an explicit stack of activations, one per recursive call.          *)
(* Indices are 0-based as in the JavaScript source; At(b, k) is b[k].      *)
(***************************************************************************)
EXTENDS Integers, Sequences, FiniteSets, TLC

VARIABLES call, blob, i, mem, datPtr, programOutput, balance, pc, ret, stack

vars == <<call, blob, i, mem, datPtr, programOutput, balance, pc, ret, stack>>

----------------------------------------------------------------------------
(* Token constants, interpreter.js lines 8-15 *)
TOKEN_INCR == "+"
TOKEN_DECR == "-"
TOKEN_LEFT == "<"
TOKEN_RIGHT == ">"
TOKEN_LOOP_START == "["
TOKEN_LOOP_STOP == "]"
TOKEN_INPUT == ","
TOKEN_PRINT == "."

Tokens == {TOKEN_INCR, TOKEN_DECR, TOKEN_LEFT, TOKEN_RIGHT,
           TOKEN_LOOP_START, TOKEN_LOOP_STOP, TOKEN_INPUT, TOKEN_PRINT}

(* a character outside the token alphabet *)
OtherChar == "a"

----------------------------------------------------------------------------
(* Bounds of the model *)
MaxLen == 4
MaxLoopLen == 7
MaxN == 3
MaxPtr == 3
MaxCell == 4
MaxOut == 2
ScanFloor == 2
Fuel == 80

(* Array(30000), line 76 *)
TapeLength == 30000

(* String.fromCharCode keeps the low 16 bits of its argument *)
CharCodeRange == 65536

----------------------------------------------------------------------------
(* Source texts *)
Alphabet == Tokens \cup {OtherChar}

LoopAlphabet == {TOKEN_INCR, TOKEN_DECR, TOKEN_LOOP_START, TOKEN_LOOP_STOP}

StringsUpTo(A, n) == UNION {[1..k -> A] : k \in 0..n}

Repeat(c, n) == [k \in 1..n |-> c]

CopyLoop(n) ==
    Repeat(TOKEN_INCR, n) \o
    <<TOKEN_LOOP_START, TOKEN_RIGHT, TOKEN_INCR, TOKEN_LEFT, TOKEN_DECR,
      TOKEN_LOOP_STOP>>

Programs ==
    StringsUpTo(Alphabet, MaxLen) \cup StringsUpTo(LoopAlphabet, MaxLoopLen)
        \cup {CopyLoop(n) : n \in 1..MaxN}

(* blob[k] of JavaScript: undefined outside 0..length-1 *)
At(b, k) == IF k >= 0 /\ k < Len(b) THEN b[k + 1] ELSE "undefined"

----------------------------------------------------------------------------
(* Memory cells.  A JavaScript array element is a number, or undefined     *)
(* when the index is outside 0..29999, or NaN once ++/-- was applied to    *)
(* undefined.                                                              *)
Num(n) == [kind |-> "num", val |-> n]
Undefined == [kind |-> "undefined", val |-> 0]
NaN == [kind |-> "NaN", val |-> 0]

FreshCell(k) == IF k >= 0 /\ k < TapeLength THEN Num(0) ELSE Undefined

FreshMem == [k \in (-MaxPtr)..MaxPtr |-> FreshCell(k)]

CellIncr(c) == IF c.kind = "num" THEN Num(c.val + 1) ELSE NaN

CellDecr(c) == IF c.kind = "num" THEN Num(c.val - 1) ELSE NaN

CellIsZero(c) == c.kind = "num" /\ c.val = 0

(* the test of line 125 off by one *)
CellIsPositive_AboveOne(c) == c.kind = "num" /\ c.val > 1

CellIsPositive(c) == c.kind = "num" /\ c.val > 0

(* a conversion that keeps the cell value as it is *)
FromCharCode_Raw(c) == IF c.kind = "num" THEN c.val ELSE 0

FromCharCode(c) == IF c.kind = "num" THEN c.val % CharCodeRange ELSE 0

----------------------------------------------------------------------------
(* eval, lines 74-142, as functions on the record of its local variables *)
NoReturn == [pending |-> TRUE]

(* an error record that still carries a result field *)
ErrorReturn_Partial == [error |-> "unterminated loop", res |-> <<>>]

ErrorReturn == [error |-> "unterminated loop"]

EvalStart(b) ==
    [blob |-> b, i |-> 0, mem |-> FreshMem, datPtr |-> 0,
     programOutput |-> <<>>, balance |-> 0, pc |-> "main", ret |-> NoReturn]

Tok(s) == At(s.blob, s.i)

Dispatching(s) == s.pc = "main" /\ s.i < Len(s.blob)

DoIncr(s) == [s EXCEPT !.mem[s.datPtr] = CellIncr(@), !.i = @ + 1]

DoDecr(s) == [s EXCEPT !.mem[s.datPtr] = CellDecr(@), !.i = @ + 1]

DoRight(s) == [s EXCEPT !.datPtr = @ + 1, !.i = @ + 1]

DoLeft(s) == [s EXCEPT !.datPtr = @ - 1, !.i = @ + 1]

DoInput(s) == [s EXCEPT !.i = @ + 1]

(* a write-output that replaces the output instead of appending to it *)
DoPrint_Replace(s) ==
    [s EXCEPT !.programOutput = <<FromCharCode(s.mem[s.datPtr])>>,
              !.i = @ + 1]

DoPrint(s) ==
    [s EXCEPT !.programOutput = Append(@, FromCharCode(s.mem[s.datPtr])),
              !.i = @ + 1]

DoOther(s) == [s EXCEPT !.i = @ + 1]

(* the zero test of line 107 inverted *)
DoLoopStart_Inverted(s) ==
    IF ~CellIsZero(s.mem[s.datPtr])
    THEN [s EXCEPT !.balance = 0, !.pc = "fwd"]
    ELSE [s EXCEPT !.balance = 0, !.i = @ + 1]

(* a loop-start that also skips the loop on a negative cell *)
DoLoopStart_NonPositive(s) ==
    IF s.mem[s.datPtr].kind = "num" /\ s.mem[s.datPtr].val <= 0
    THEN [s EXCEPT !.balance = 0, !.pc = "fwd"]
    ELSE [s EXCEPT !.balance = 0, !.i = @ + 1]

DoLoopStart(s) ==
    IF CellIsZero(s.mem[s.datPtr])
    THEN [s EXCEPT !.balance = 0, !.pc = "fwd"]
    ELSE [s EXCEPT !.balance = 0, !.i = @ + 1]

(* a loop-stop that never jumps back *)
DoLoopStop_Never(s) == [s EXCEPT !.balance = 0, !.i = @ + 1]

DoLoopStop(s) ==
    IF CellIsPositive(s.mem[s.datPtr])
    THEN [s EXCEPT !.balance = 0, !.pc = "back"]
    ELSE [s EXCEPT !.balance = 0, !.i = @ + 1]

ScanBalance(s) ==
    IF Tok(s) = TOKEN_LOOP_START THEN s.balance + 1
    ELSE IF Tok(s) = TOKEN_LOOP_STOP THEN s.balance - 1
    ELSE s.balance

(* the forward scan moving the index down as the backward scan does *)
FwdScan_Backward(s) ==
    LET b == ScanBalance(s)
        j == IF s.i > -ScanFloor THEN s.i - 1 ELSE s.i
    IN  IF b # 0 /\ j < Len(s.blob)
        THEN [s EXCEPT !.balance = b, !.i = j]
        ELSE IF b # 0
        THEN [s EXCEPT !.balance = b, !.i = j, !.pc = "error",
                       !.ret = ErrorReturn]
        ELSE [s EXCEPT !.balance = b, !.i = j + 1, !.pc = "main"]

(* the forward scan without the balance test of lines 118-120 *)
FwdScan_NoCheck(s) ==
    LET b == ScanBalance(s)
        j == s.i + 1
    IN  IF b # 0 /\ j < Len(s.blob)
        THEN [s EXCEPT !.balance = b, !.i = j]
        ELSE [s EXCEPT !.balance = b, !.i = j + 1, !.pc = "main"]

(* one iteration of the do-while of lines 110-117, then lines 118-122 and  *)
(* the i++ of the for statement when the scan is over                      *)
FwdScan(s) ==
    LET b == ScanBalance(s)
        j == s.i + 1
    IN  IF b # 0 /\ j < Len(s.blob)
        THEN [s EXCEPT !.balance = b, !.i = j]
        ELSE IF b # 0
        THEN [s EXCEPT !.balance = b, !.i = j, !.pc = "error",
                       !.ret = ErrorReturn]
        ELSE [s EXCEPT !.balance = b, !.i = j + 1, !.pc = "main"]

(* i-- on a double stops changing the value at -2^53; ScanFloor stands for *)
(* that magnitude                                                          *)
Decrement(k) == IF k > -ScanFloor THEN k - 1 ELSE k

(* the backward scan stopping at the first loop-start it meets, whatever   *)
(* the nesting                                                             *)
BackScan_FirstStart(s) ==
    LET b == IF Tok(s) = TOKEN_LOOP_START THEN 0 ELSE ScanBalance(s)
        j == Decrement(s.i)
    IN  IF b # 0 /\ j < Len(s.blob)
        THEN [s EXCEPT !.balance = b, !.i = j]
        ELSE IF b # 0
        THEN [s EXCEPT !.balance = b, !.i = j, !.pc = "error",
                       !.ret = ErrorReturn]
        ELSE [s EXCEPT !.balance = b, !.i = j + 1, !.pc = "main"]

(* one iteration of the do-while of lines 126-133, then lines 134-138 and  *)
(* the i++ of the for statement when the scan is over                      *)
BackScan(s) ==
    LET b == ScanBalance(s)
        j == Decrement(s.i)
    IN  IF b # 0 /\ j < Len(s.blob)
        THEN [s EXCEPT !.balance = b, !.i = j]
        ELSE IF b # 0
        THEN [s EXCEPT !.balance = b, !.i = j, !.pc = "error",
                       !.ret = ErrorReturn]
        ELSE [s EXCEPT !.balance = b, !.i = j + 1, !.pc = "main"]

(* line 141 *)
DoReturn(s) ==
    [s EXCEPT !.pc = "done",
              !.ret = [ptrPos |-> s.datPtr, stdout |-> s.programOutput,
                       mem |-> s.mem, error |-> ""]]

(* the model stops a run that would leave the modelled part of the tape,   *)
(* the modelled cell values or the modelled output length                  *)
WithinBounds(s) ==
    IF ~Dispatching(s) THEN TRUE
    ELSE IF Tok(s) = TOKEN_INCR
    THEN s.mem[s.datPtr].kind # "num" \/ s.mem[s.datPtr].val < MaxCell
    ELSE IF Tok(s) = TOKEN_DECR
    THEN s.mem[s.datPtr].kind # "num" \/ s.mem[s.datPtr].val > -MaxCell
    ELSE IF Tok(s) = TOKEN_RIGHT THEN s.datPtr < MaxPtr
    ELSE IF Tok(s) = TOKEN_LEFT THEN s.datPtr > -MaxPtr
    ELSE IF Tok(s) = TOKEN_PRINT THEN Len(s.programOutput) < MaxOut
    ELSE TRUE

Returned(s) == s.pc \in {"done", "error"}

(* the switch of lines 84-139 together with the loop test of line 83 *)
Step(s) ==
    IF s.pc = "fwd" THEN FwdScan(s)
    ELSE IF s.pc = "back" THEN BackScan(s)
    ELSE IF ~Dispatching(s) THEN DoReturn(s)
    ELSE IF Tok(s) = TOKEN_INCR THEN DoIncr(s)
    ELSE IF Tok(s) = TOKEN_DECR THEN DoDecr(s)
    ELSE IF Tok(s) = TOKEN_RIGHT THEN DoRight(s)
    ELSE IF Tok(s) = TOKEN_LEFT THEN DoLeft(s)
    ELSE IF Tok(s) = TOKEN_INPUT THEN DoInput(s)
    ELSE IF Tok(s) = TOKEN_PRINT THEN DoPrint(s)
    ELSE IF Tok(s) = TOKEN_LOOP_START THEN DoLoopStart(s)
    ELSE IF Tok(s) = TOKEN_LOOP_STOP THEN DoLoopStop(s)
    ELSE DoOther(s)

RECURSIVE Run(_, _)
(* eval run for at most n steps *)
Run(s, n) ==
    IF Returned(s) \/ n = 0 \/ ~WithinBounds(s) THEN s
    ELSE Run(Step(s), n - 1)

RECURSIVE FinishDispatch(_, _)
(* from a state inside a balance scan, the state in which the scan is over *)
FinishDispatch(s, n) ==
    IF s.pc \notin {"fwd", "back"} \/ n = 0 THEN s
    ELSE FinishDispatch(Step(s), n - 1)

(* the state after the whole switch case of the current token *)
AfterDispatch(s) == FinishDispatch(Step(s), Fuel)

----------------------------------------------------------------------------
(* The state of the running eval call *)
Cur ==
    [blob |-> blob, i |-> i, mem |-> mem, datPtr |-> datPtr,
     programOutput |-> programOutput, balance |-> balance, pc |-> pc,
     ret |-> ret]

Become(s) ==
    /\ i' = s.i
    /\ mem' = s.mem
    /\ datPtr' = s.datPtr
    /\ programOutput' = s.programOutput
    /\ balance' = s.balance
    /\ pc' = s.pc
    /\ ret' = s.ret
    /\ UNCHANGED <<call, blob, stack>>

Dispatch(tok) ==
    /\ call = "eval"
    /\ Dispatching(Cur)
    /\ Tok(Cur) = tok
    /\ WithinBounds(Cur)

EvalIncr == Dispatch(TOKEN_INCR) /\ Become(DoIncr(Cur))

EvalDecr == Dispatch(TOKEN_DECR) /\ Become(DoDecr(Cur))

EvalRight == Dispatch(TOKEN_RIGHT) /\ Become(DoRight(Cur))

EvalLeft == Dispatch(TOKEN_LEFT) /\ Become(DoLeft(Cur))

EvalInput == Dispatch(TOKEN_INPUT) /\ Become(DoInput(Cur))

EvalPrint == Dispatch(TOKEN_PRINT) /\ Become(DoPrint(Cur))

EvalLoopStart == Dispatch(TOKEN_LOOP_START) /\ Become(DoLoopStart(Cur))

EvalLoopStop == Dispatch(TOKEN_LOOP_STOP) /\ Become(DoLoopStop(Cur))

EvalOther ==
    /\ call = "eval"
    /\ Dispatching(Cur)
    /\ Tok(Cur) \notin Tokens
    /\ Become(DoOther(Cur))

EvalFwdScan == call = "eval" /\ pc = "fwd" /\ Become(FwdScan(Cur))

EvalBackScan == call = "eval" /\ pc = "back" /\ Become(BackScan(Cur))

EvalReturn ==
    /\ call = "eval"
    /\ pc = "main"
    /\ i >= Len(blob)
    /\ Become(DoReturn(Cur))

----------------------------------------------------------------------------
(* parse, lines 23-64.  An element of res is a character or the res of a   *)
(* nested call; both are wrapped in a record so that they can be told      *)
(* apart.                                                                  *)
Leaf(c) == [leaf |-> TRUE, ch |-> c, sub |-> <<>>]

Nested(r) == [leaf |-> FALSE, ch |-> "", sub |-> r]

(* the activation of one call parse(b) *)
ParseFrame(b) ==
    [blob |-> b, i |-> 0, res |-> <<>>, innerContent |-> <<>>,
     balance |-> 0, pc |-> "loop", ret |-> NoReturn]

Top == stack[Len(stack)]

ReplaceTop(f) == [stack EXCEPT ![Len(stack)] = f]

(* line 59 and the i++ of the for statement *)
PushLeaf(f) ==
    [f EXCEPT !.res = Append(@, Leaf(At(f.blob, f.i))), !.i = @ + 1]

(* lines 28-29 *)
BeginScan(f) == [f EXCEPT !.innerContent = <<>>, !.balance = 0, !.pc = "scan"]

(* the do-while body keeping the outermost loop-start in innerContent *)
ScanBody_KeepOuter(f) ==
    LET c == At(f.blob, f.i)
        b == IF c = TOKEN_LOOP_START THEN f.balance + 1
             ELSE IF c = TOKEN_LOOP_STOP THEN f.balance - 1
             ELSE f.balance
        keep == IF c = TOKEN_LOOP_START THEN b >= 1
                ELSE IF c = TOKEN_LOOP_STOP THEN b > 0
                ELSE TRUE
    IN  [f EXCEPT !.balance = b,
                  !.innerContent = IF keep THEN Append(@, c) ELSE @,
                  !.i = @ + 1]

(* the do-while body leaving the loop-stops of nested loops out of         *)
(* innerContent                                                            *)
ScanBody_DropStops(f) ==
    LET c == At(f.blob, f.i)
        b == IF c = TOKEN_LOOP_START THEN f.balance + 1
             ELSE IF c = TOKEN_LOOP_STOP THEN f.balance - 1
             ELSE f.balance
        keep == IF c = TOKEN_LOOP_START THEN b > 1
                ELSE IF c = TOKEN_LOOP_STOP THEN FALSE
                ELSE TRUE
    IN  [f EXCEPT !.balance = b,
                  !.innerContent = IF keep THEN Append(@, c) ELSE @,
                  !.i = @ + 1]

(* the do-while body without the i++ of line 47 *)
ScanBody_NoAdvance(f) ==
    LET c == At(f.blob, f.i)
        b == IF c = TOKEN_LOOP_START THEN f.balance + 1
             ELSE IF c = TOKEN_LOOP_STOP THEN f.balance - 1
             ELSE f.balance
        keep == IF c = TOKEN_LOOP_START THEN b > 1
                ELSE IF c = TOKEN_LOOP_STOP THEN b > 0
                ELSE TRUE
    IN  [f EXCEPT !.balance = b,
                  !.innerContent = IF keep THEN Append(@, c) ELSE @]

(* lines 34-47: the body of the do-while *)
ScanBody(f) ==
    LET c == At(f.blob, f.i)
        b == IF c = TOKEN_LOOP_START THEN f.balance + 1
             ELSE IF c = TOKEN_LOOP_STOP THEN f.balance - 1
             ELSE f.balance
        keep == IF c = TOKEN_LOOP_START THEN b > 1
                ELSE IF c = TOKEN_LOOP_STOP THEN b > 0
                ELSE TRUE
    IN  [f EXCEPT !.balance = b,
                  !.innerContent = IF keep THEN Append(@, c) ELSE @,
                  !.i = @ + 1]

(* lines 48-53: the while test, the balance test and the recursive call *)
ScanIteration(f) ==
    LET g == ScanBody(f)
    IN  IF g.balance # 0 /\ g.i < Len(g.blob) THEN g
        ELSE IF g.balance # 0
        THEN [g EXCEPT !.pc = "fail", !.ret = ErrorReturn]
        ELSE [g EXCEPT !.pc = "call"]

(* line 63 *)
SuccessReturn(f) == [res |-> f.res, error |-> ""]

ReturnValue(f) == IF f.pc = "fail" THEN f.ret ELSE SuccessReturn(f)

(* lines 54-57 and the i++ of the for statement, in the caller *)
Resume(f, innerParsed) ==
    IF innerParsed.error # ""
    THEN [f EXCEPT !.pc = "fail", !.ret = innerParsed]
    ELSE [f EXCEPT !.res = Append(@, Nested(innerParsed.res)),
                   !.i = @ + 1, !.pc = "loop"]

Parsing == call = "parse" /\ stack # <<>>

ParseLeaf ==
    /\ Parsing
    /\ Top.pc = "loop"
    /\ Top.i < Len(Top.blob)
    /\ At(Top.blob, Top.i) # TOKEN_LOOP_START
    /\ stack' = ReplaceTop(PushLeaf(Top))
    /\ UNCHANGED <<call, blob, i, mem, datPtr, programOutput, balance, pc,
                   ret>>

ParseLoopStart ==
    /\ Parsing
    /\ Top.pc = "loop"
    /\ Top.i < Len(Top.blob)
    /\ At(Top.blob, Top.i) = TOKEN_LOOP_START
    /\ stack' = ReplaceTop(BeginScan(Top))
    /\ UNCHANGED <<call, blob, i, mem, datPtr, programOutput, balance, pc,
                   ret>>

ParseScan ==
    /\ Parsing
    /\ Top.pc = "scan"
    /\ LET g == ScanIteration(Top)
       IN  stack' = IF g.pc = "call"
                    THEN Append(ReplaceTop(g), ParseFrame(g.innerContent))
                    ELSE ReplaceTop(g)
    /\ UNCHANGED <<call, blob, i, mem, datPtr, programOutput, balance, pc,
                   ret>>

ParseReturn ==
    /\ Parsing
    /\ \/ Top.pc = "loop" /\ Top.i >= Len(Top.blob)
       \/ Top.pc = "fail"
    /\ LET r == ReturnValue(Top)
           n == Len(stack)
       IN  IF n = 1
           THEN /\ stack' = <<>>
                /\ ret' = r
                /\ pc' = IF r.error = "" THEN "done" ELSE "error"
           ELSE /\ stack' = [SubSeq(stack, 1, n - 1)
                                EXCEPT ![n - 1] = Resume(stack[n - 1], r)]
                /\ UNCHANGED <<ret, pc>>
    /\ UNCHANGED <<call, blob, i, mem, datPtr, programOutput, balance>>

----------------------------------------------------------------------------
Init ==
    /\ call \in {"parse", "eval"}
    /\ blob \in Programs
    /\ i = 0
    /\ mem = FreshMem
    /\ datPtr = 0
    /\ programOutput = <<>>
    /\ balance = 0
    /\ pc = IF call = "eval" THEN "main" ELSE "parse"
    /\ ret = NoReturn
    /\ stack = IF call = "parse" THEN <<ParseFrame(blob)>> ELSE <<>>

Next ==
    \/ EvalIncr
    \/ EvalDecr
    \/ EvalRight
    \/ EvalLeft
    \/ EvalInput
    \/ EvalPrint
    \/ EvalLoopStart
    \/ EvalLoopStop
    \/ EvalOther
    \/ EvalFwdScan
    \/ EvalBackScan
    \/ EvalReturn
    \/ ParseLeaf
    \/ ParseLoopStart
    \/ ParseScan
    \/ ParseReturn

Spec == Init /\ [][Next]_vars

----------------------------------------------------------------------------
(* Loop structure of a source text, stated without any scan: the number of *)
(* loop-starts minus the number of loop-stops in b[lo..hi]                 *)
Count(b, lo, hi, c) == Cardinality({k \in lo..hi : At(b, k) = c})

Excess(b, lo, hi) ==
    Count(b, lo, hi, TOKEN_LOOP_START) - Count(b, lo, hi, TOKEN_LOOP_STOP)

Min(S) == CHOOSE x \in S : \A y \in S : x <= y

Max(S) == CHOOSE x \in S : \A y \in S : x >= y

StopsFor(b, k) == {j \in k..(Len(b) - 1) : Excess(b, k, j) = 0}

StartsFor(b, k) == {j \in 0..k : Excess(b, j, k) = 0}

(* the loop-stop matching the loop-start at k, and conversely *)
MatchingStop(b, k) == Min(StopsFor(b, k))

MatchingStart(b, k) == Max(StartsFor(b, k))

HasUnmatchedStart(b) ==
    \E k \in 0..(Len(b) - 1) :
        At(b, k) = TOKEN_LOOP_START /\ StopsFor(b, k) = {}

WellBalanced(b) ==
    /\ \A k \in 0..(Len(b) - 1) : Excess(b, 0, k) >= 0
    /\ Excess(b, 0, Len(b) - 1) = 0

(* the source without the characters outside the token alphabet *)
IsToken(c) == c \in Tokens

Strip(b) == SelectSeq(b, IsToken)

ParseReturned == call = "parse" /\ pc \in {"done", "error"}

EvalReturned == call = "eval" /\ pc \in {"done", "error"}

SameTape(s) ==
    /\ s.mem = mem
    /\ s.datPtr = datPtr
    /\ s.programOutput = programOutput

----------------------------------------------------------------------------
(* C1: parse returns the error 'unterminated loop' for every source that   *)
(* contains a loop-start with no matching loop-stop after it, wherever     *)
(* that loop-start occurs.  The code skips the character that follows a    *)
(* closed loop, so an unmatched loop-start in that position is never seen. *)
C1_UnterminatedDetected ==
    (ParseReturned /\ HasUnmatchedStart(blob))
        => (pc = "error" /\ ret.error = "unterminated loop")

----------------------------------------------------------------------------
(* C2: for every well-balanced source, parse succeeds: it returns a result *)
(* sequence and the empty error string.                                    *)
C2_BalancedParses ==
    (ParseReturned /\ WellBalanced(blob))
        => (pc = "done" /\ DOMAIN ret = {"res", "error"} /\ ret.error = "")

C2_Witness ==
    /\ ParseReturned
    /\ blob = <<TOKEN_LOOP_START, TOKEN_LOOP_START, TOKEN_LOOP_STOP,
                TOKEN_LOOP_START, TOKEN_LOOP_STOP, TOKEN_LOOP_STOP>>
    /\ ret.error = ""

----------------------------------------------------------------------------
(* C3: for every well-balanced source the number of elements of the        *)
(* sequence returned by parse is the number of characters outside every    *)
(* loop plus the number of top-level loops, and the same holds between     *)
(* each nested sequence and the body of its loop.                          *)
RECURSIVE TopBodiesFrom(_, _)
TopBodiesFrom(b, k) ==
    IF k >= Len(b) THEN <<>>
    ELSE IF At(b, k) = TOKEN_LOOP_START
    THEN LET m == MatchingStop(b, k)
         IN  <<SubSeq(b, k + 2, m)>> \o TopBodiesFrom(b, m + 1)
    ELSE TopBodiesFrom(b, k + 1)

OutsideCount(b) ==
    Cardinality({k \in 0..(Len(b) - 1) :
        /\ At(b, k) \notin {TOKEN_LOOP_START, TOKEN_LOOP_STOP}
        /\ Excess(b, 0, k) = 0})

IsNested(n) == ~n.leaf

RECURSIVE ShapeOK(_, _)
ShapeOK(res, b) ==
    LET bodies == TopBodiesFrom(b, 0)
        nested == SelectSeq(res, IsNested)
    IN  /\ Len(res) = OutsideCount(b) + Len(bodies)
        /\ Len(nested) = Len(bodies)
        /\ \A k \in 1..Len(bodies) : ShapeOK(nested[k].sub, bodies[k])

C3_ElementCount ==
    (ParseReturned /\ WellBalanced(blob) /\ pc = "done")
        => ShapeOK(ret.res, blob)

----------------------------------------------------------------------------
(* C4: a loop-start dispatched on a zero cell with a matching loop-stop    *)
(* leaves tape, pointer and output unchanged and resumes with the token    *)
(* immediately after the matching loop-stop.                               *)
SkipsLoop ==
    /\ call = "eval"
    /\ Dispatching(Cur)
    /\ Tok(Cur) = TOKEN_LOOP_START
    /\ CellIsZero(mem[datPtr])

C4_SkipResumesAfterStop ==
    (SkipsLoop /\ StopsFor(blob, i) # {})
        => LET s == AfterDispatch(Cur)
               m == MatchingStop(blob, i)
           IN  /\ s.pc = "main"
               /\ SameTape(s)
               /\ IF m + 1 < Len(blob) THEN s.i = m + 1 ELSE ~Dispatching(s)

----------------------------------------------------------------------------
(* C5: a loop-stop dispatched on a positive cell with no matching          *)
(* loop-start before it ends the backward scan and makes eval return the   *)
(* error 'unterminated loop'.                                              *)
RepeatsLoop ==
    /\ call = "eval"
    /\ Dispatching(Cur)
    /\ Tok(Cur) = TOKEN_LOOP_STOP
    /\ CellIsPositive(mem[datPtr])

C5_BackwardScanFails ==
    (RepeatsLoop /\ StartsFor(blob, i) = {})
        => LET s == AfterDispatch(Cur)
           IN  s.pc = "error" /\ s.ret = ErrorReturn

----------------------------------------------------------------------------
(* C6: eval of a source and eval of the source without its non-token       *)
(* characters return the same outcome.                                     *)
C6_IgnoredCharacters ==
    EvalReturned
        => LET r == Run(EvalStart(Strip(blob)), Fuel)
           IN  Returned(r)
                   => /\ r.pc = pc
                      /\ pc = "done" => r.ret = ret

----------------------------------------------------------------------------
(* C7: a loop-stop dispatched on a positive cell with a matching           *)
(* loop-start changes neither tape, pointer nor output; the scan index     *)
(* comes back to the matching loop-start, whose dispatch on the still      *)
(* positive cell falls through, so the next token to take effect is the    *)
(* one just after the matching loop-start.                                 *)
C7_JumpReentersBody ==
    (RepeatsLoop /\ StartsFor(blob, i) # {})
        => LET m == MatchingStart(blob, i)
               s == AfterDispatch(Cur)
               t == Step(s)
           IN  /\ s.pc = "main" /\ s.i = m /\ SameTape(s)
               /\ t.pc = "main" /\ t.i = m + 1 /\ SameTape(t)

(* the backward scan is about to end on the matching loop-start, having    *)
(* crossed a nested loop                                                   *)
C7_Witness ==
    /\ call = "eval"
    /\ pc = "back"
    /\ balance = -1
    /\ Tok(Cur) = TOKEN_LOOP_START
    /\ StopsFor(blob, i) # {}
    /\ Count(blob, i + 1, MatchingStop(blob, i) - 1, TOKEN_LOOP_START) > 0
    /\ BackScan(Cur).i = i

----------------------------------------------------------------------------
(* C8: a loop-start dispatched on a zero cell whose forward scan reaches   *)
(* the end of the source with a non-zero balance makes eval return the     *)
(* error 'unterminated loop'.                                              *)
C8_ForwardScanFails ==
    (SkipsLoop /\ StopsFor(blob, i) = {})
        => LET s == AfterDispatch(Cur)
           IN  s.pc = "error" /\ s.ret = ErrorReturn

C8_Witness ==
    /\ call = "eval"
    /\ pc = "error"
    /\ balance > 0
    /\ i = Len(blob)
    /\ ret = ErrorReturn
    /\ Len(blob) >= 3

----------------------------------------------------------------------------
(* C9: n increments followed by [>+<-] on a fresh tape end successfully    *)
(* with cell 0 = 0, cell 1 = n, pointer 0, every other cell untouched and  *)
(* empty output; the loop body runs exactly n times: each time its         *)
(* increment is dispatched cell 0 and cell 1 sum to n and cell 0 is        *)
(* positive, and cell 1 ends at n.                                         *)
CopyResult(n) ==
    [k \in (-MaxPtr)..MaxPtr |->
        IF k = 1 THEN Num(n) ELSE FreshCell(k)]

C9_CopyLoop ==
    \A n \in 1..MaxN :
        (call = "eval" /\ blob = CopyLoop(n) /\ n <= MaxCell)
            => /\ LET r == Run(Cur, Fuel)
                  IN  /\ r.pc = "done"
                      /\ r.ret = [ptrPos |-> 0, stdout |-> <<>>,
                                  mem |-> CopyResult(n), error |-> ""]
               /\ (pc = "main" /\ i = n + 2)
                      => /\ datPtr = 1
                         /\ mem[0].val >= 1
                         /\ mem[0].val + mem[1].val = n
               /\ pc # "error"

C9_Witness ==
    /\ call = "eval"
    /\ blob = CopyLoop(MaxN)
    /\ pc = "done"
    /\ ret.mem[1] = Num(MaxN)

----------------------------------------------------------------------------
(* C10: for every well-balanced body B, eval of [B] on a fresh tape ends   *)
(* successfully with pointer 0, every cell untouched and empty output, and *)
(* no token of B is ever dispatched.                                       *)
IsWrapped(b) ==
    /\ Len(b) >= 2
    /\ b[1] = TOKEN_LOOP_START
    /\ b[Len(b)] = TOKEN_LOOP_STOP
    /\ WellBalanced(SubSeq(b, 2, Len(b) - 1))

C10_ZeroLoopSkipped ==
    (call = "eval" /\ IsWrapped(blob))
        => /\ Dispatching(Cur) => i = 0
           /\ mem = FreshMem /\ datPtr = 0 /\ programOutput = <<>>
           /\ pc # "error"
           /\ pc # "back"
           /\ LET r == Run(Cur, Fuel)
              IN  /\ r.pc = "done"
                  /\ r.ret = [ptrPos |-> 0, stdout |-> <<>>,
                              mem |-> FreshMem, error |-> ""]

C10_Witness ==
    /\ call = "eval"
    /\ pc = "done"
    /\ IsWrapped(blob)
    /\ Len(blob) >= 6
    /\ Count(blob, 1, Len(blob) - 2, TOKEN_INCR) > 0
    /\ Count(blob, 1, Len(blob) - 2, TOKEN_LOOP_START) > 0

----------------------------------------------------------------------------
(* C11: eval of +[] never returns: no reachable state of that evaluation   *)
(* is a returned result, and from every reachable state the loop-stop is   *)
(* dispatched again with cell 0 equal to 1 after at least one and at most  *)
(* RecurWithin steps (eval is deterministic, so this is infinitely often). *)
RecurWithin == 6

SpinLoop == <<TOKEN_INCR, TOKEN_LOOP_START, TOKEN_LOOP_STOP>>

StopOnOne(s) ==
    /\ Dispatching(s)
    /\ Tok(s) = TOKEN_LOOP_STOP
    /\ s.datPtr = 0
    /\ s.mem[0] = Num(1)

C11_SpinNeverReturns ==
    (call = "eval" /\ blob = SpinLoop)
        => /\ ~Returned(Cur)
           /\ ~Returned(Run(Cur, Fuel))
           /\ \E k \in 1..RecurWithin : StopOnOne(Run(Cur, k))

(* the backward jump of the spinning loop is under way *)
C11_Witness ==
    /\ call = "eval"
    /\ blob = SpinLoop
    /\ pc = "back"
    /\ balance = -1
    /\ i = 1
    /\ mem[0] = Num(1)

----------------------------------------------------------------------------
(* C12: for a source without loop delimiters whose pointer stays inside    *)
(* the tape, eval returns success with the pointer at (move-rights minus   *)
(* move-lefts), each cell at the net number of increments dispatched while *)
(* the pointer was on it, and one output character per write-output;       *)
(* read-input and non-token characters contribute nothing.                 *)
LoopFree(b) ==
    \A k \in 0..(Len(b) - 1) :
        At(b, k) \notin {TOKEN_LOOP_START, TOKEN_LOOP_STOP}

(* pointer before the character at k, and value of cell c at that moment *)
PointerAt(b, k) ==
    Count(b, 0, k - 1, TOKEN_RIGHT) - Count(b, 0, k - 1, TOKEN_LEFT)

ValueAt(b, c, k) ==
    Cardinality({j \in 0..(k - 1) :
        At(b, j) = TOKEN_INCR /\ PointerAt(b, j) = c})
    - Cardinality({j \in 0..(k - 1) :
        At(b, j) = TOKEN_DECR /\ PointerAt(b, j) = c})

StaysInTape(b) ==
    \A k \in 0..Len(b) : PointerAt(b, k) >= 0 /\ PointerAt(b, k) < TapeLength

RECURSIVE WrittenValues(_, _)
(* the values of the current cell at the write-outputs from index k on *)
WrittenValues(b, k) ==
    IF k >= Len(b) THEN <<>>
    ELSE IF At(b, k) = TOKEN_PRINT
    THEN <<ValueAt(b, PointerAt(b, k), k)>> \o WrittenValues(b, k + 1)
    ELSE WrittenValues(b, k + 1)

StraightLineResult ==
    /\ pc = "done"
    /\ ret.error = ""
    /\ ret.ptrPos = PointerAt(blob, Len(blob))
    /\ \A c \in 0..MaxPtr : ret.mem[c] = Num(ValueAt(blob, c, Len(blob)))
    /\ Len(ret.stdout) = Count(blob, 0, Len(blob) - 1, TOKEN_PRINT)

StraightLine == EvalReturned /\ LoopFree(blob) /\ StaysInTape(blob)

(* the claim as stated: each output character has the current cell's value *)
(* as its codepoint                                                        *)
C12_StraightLineAsStated ==
    StraightLine
        => /\ StraightLineResult
           /\ ret.stdout = WrittenValues(blob, 0)

(* the claim as amended: the codepoint is the cell's value modulo 65536 *)
C12_StraightLine ==
    StraightLine
        => /\ StraightLineResult
           /\ \A k \in 1..Len(ret.stdout) :
                  ret.stdout[k] = WrittenValues(blob, 0)[k] % 65536

C12_Witness ==
    /\ StraightLine
    /\ ret.ptrPos >= 1
    /\ ret.mem[ret.ptrPos].val < 0
    /\ Len(ret.stdout) >= 1
    /\ ret.stdout[1] = 65535

----------------------------------------------------------------------------
(* C13: the output is append-only: every step leaves it unchanged or       *)
(* appends exactly one character, it grows exactly when write-output is    *)
(* dispatched, and the appended character is the one for the value of the  *)
(* current cell at that moment; characters already written never change.   *)
IsPrefix(u, v) == Len(u) <= Len(v) /\ SubSeq(v, 1, Len(u)) = u

WritesOutput == call = "eval" /\ Dispatching(Cur) /\ Tok(Cur) = TOKEN_PRINT

C13_OutputStep ==
    /\ IsPrefix(programOutput, programOutput')
    /\ WritesOutput
           => programOutput' =
                  Append(programOutput,
                         IF mem[datPtr].kind = "num"
                         THEN mem[datPtr].val % 65536 ELSE 0)
    /\ ~WritesOutput => programOutput' = programOutput

C13_OutputAppendOnly == [][C13_OutputStep]_vars

(* two characters written for two different values of the cell *)
C13_Witness ==
    /\ call = "eval"
    /\ Len(programOutput) = 2
    /\ programOutput[1] # programOutput[2]
    /\ LoopFree(blob)
    /\ Count(blob, 0, Len(blob) - 1, TOKEN_LEFT) = 0
    /\ Count(blob, 0, Len(blob) - 1, TOKEN_RIGHT) = 0

----------------------------------------------------------------------------
(* C14: every result returned by parse or eval is either a success record  *)
(* with error '' and the full result (parse: res; eval: ptrPos, mem,       *)
(* stdout) or an error record with error 'unterminated loop' and no other  *)
(* field; before the return there is no result.                            *)
C14_ResultShape ==
    /\ pc = "done"
           => /\ ret.error = ""
              /\ call = "parse" => DOMAIN ret = {"res", "error"}
              /\ call = "eval"
                     => /\ DOMAIN ret = {"ptrPos", "mem", "stdout", "error"}
                        /\ ret.ptrPos = datPtr
                        /\ ret.mem = mem
                        /\ ret.stdout = programOutput
    /\ pc = "error"
           => DOMAIN ret = {"error"} /\ ret.error = "unterminated loop"
    /\ pc \notin {"done", "error"} => DOMAIN ret = {"pending"}
    /\ call = "parse" => (stack = <<>> <=> pc \in {"done", "error"})

C14_Witness ==
    /\ call = "parse"
    /\ pc = "error"
    /\ DOMAIN ret = {"error"}
    /\ Len(blob) >= 3
    /\ At(blob, 0) # TOKEN_LOOP_START

----------------------------------------------------------------------------
(* C15: parse appends every character that is not a loop-start and lies    *)
(* outside every loop, in source order, as a leaf of the returned          *)
(* sequence; a stray loop-stop is such a leaf and no such character is     *)
(* dropped.                                                                *)
RECURSIVE TopLeavesFrom(_, _)
TopLeavesFrom(b, k) ==
    IF k >= Len(b) THEN <<>>
    ELSE IF At(b, k) = TOKEN_LOOP_START
    THEN IF StopsFor(b, k) = {} THEN <<>>
         ELSE TopLeavesFrom(b, MatchingStop(b, k) + 1)
    ELSE <<At(b, k)>> \o TopLeavesFrom(b, k + 1)

IsLeaf(n) == n.leaf

LeafChars(res) ==
    LET leaves == SelectSeq(res, IsLeaf)
    IN  [k \in 1..Len(leaves) |-> leaves[k].ch]

C15_LeavesKept ==
    (ParseReturned /\ ~HasUnmatchedStart(blob))
        => /\ pc = "done"
           /\ LeafChars(ret.res) = TopLeavesFrom(blob, 0)

----------------------------------------------------------------------------
(* C16: a loop-start dispatched on a negative cell enters the body, a      *)
(* loop-stop dispatched on a cell <= 0 falls through; eval of -[-] runs    *)
(* the body once and returns with cell 0 = -2.                             *)
NegativeLoop ==
    <<TOKEN_DECR, TOKEN_LOOP_START, TOKEN_DECR, TOKEN_LOOP_STOP>>

FallsThrough(s) ==
    /\ s.pc = "main"
    /\ s.i = i + 1
    /\ SameTape(s)

C16_EntryAndRepeatTests ==
    /\ (call = "eval" /\ Dispatching(Cur) /\ Tok(Cur) = TOKEN_LOOP_START
            /\ mem[datPtr].kind = "num" /\ mem[datPtr].val < 0)
           => FallsThrough(Step(Cur))
    /\ (call = "eval" /\ Dispatching(Cur) /\ Tok(Cur) = TOKEN_LOOP_STOP
            /\ mem[datPtr].kind = "num" /\ mem[datPtr].val <= 0)
           => FallsThrough(Step(Cur))
    /\ (call = "eval" /\ blob = NegativeLoop)
           => /\ pc \notin {"fwd", "back", "error"}
              /\ (pc = "main" /\ i = 2) => mem[0] = Num(-1)
              /\ LET r == Run(Cur, Fuel)
                 IN  /\ r.pc = "done"
                     /\ r.ret.mem[0] = Num(-2)
                     /\ r.ret.ptrPos = 0
                     /\ r.ret.stdout = <<>>

C16_Witness ==
    /\ call = "eval"
    /\ blob = NegativeLoop
    /\ pc = "done"
    /\ ret.mem[0] = Num(-2)

----------------------------------------------------------------------------
(* parse alone.  It runs to completion once called: a step that can be     *)
(* taken is eventually taken.                                              *)
ParseAlphabet == {TOKEN_INCR, TOKEN_LOOP_START, TOKEN_LOOP_STOP}

(* parse tells apart loop-start, loop-stop and any other character only *)
ParsePrograms ==
    StringsUpTo(Alphabet, MaxLen) \cup StringsUpTo(ParseAlphabet, MaxLoopLen)

ParseInit == Init /\ call = "parse" /\ blob \in ParsePrograms

ParseNext ==
    \/ ParseLeaf
    \/ ParseLoopStart
    \/ ParseScan
    \/ ParseReturn

ParseSpec == ParseInit /\ [][ParseNext]_vars /\ WF_vars(ParseNext)

----------------------------------------------------------------------------
(* C17: parse terminates on every source: in every step of an activation   *)
(* its scan index strictly increases (or the sub-scan is entered at the    *)
(* same index), every recursive call is made on an inner blob strictly     *)
(* shorter than the caller's input, and the outermost call returns.        *)
C17_ParseStep ==
    (call = "parse" /\ stack # <<>>)
        => LET n == Len(stack)
               m == Len(stack')
           IN  /\ m \in {n - 1, n, n + 1}
               /\ \A k \in 1..(n - 1) : k < m => stack'[k].blob = stack[k].blob
               /\ \A k \in 1..(n - 2) : stack'[k] = stack[k]
               /\ m = n
                      => \/ stack'[n].i > stack[n].i
                         \/ /\ stack[n].pc = "loop"
                            /\ stack'[n].pc = "scan"
                            /\ stack'[n].i = stack[n].i
               /\ m = n + 1
                      => /\ stack'[n].i > stack[n].i
                         /\ stack'[m].i = 0
                         /\ Len(stack'[m].blob) < Len(stack[n].blob)
               /\ (m = n - 1 /\ m >= 1)
                      => \/ stack'[m].i >= stack[m].i
                         \/ stack'[m].pc = "fail"

C17_ParseTerminates ==
    /\ [][C17_ParseStep]_vars
    /\ (call = "parse") ~> (call = "parse" /\ pc \in {"done", "error"})

(* a nested call has returned and its caller has moved on *)
C17_Witness ==
    /\ call = "parse"
    /\ pc = "done"
    /\ Len(blob) >= 6
    /\ Len(ret.res) >= 1
    /\ ~ret.res[1].leaf
    /\ Len(ret.res[1].sub) >= 1
    /\ ~ret.res[1].sub[1].leaf

----------------------------------------------------------------------------
(* C18: for a source without loop-stop, eval terminates: the scan index    *)
(* never decreases, no index is dispatched twice, a variant bounded below  *)
(* strictly decreases in every step, and the call ends with success once   *)
(* the index has passed the end of the source or with 'unterminated loop'  *)
(* from a forward skip.                                                    *)
NoLoopStop(b) == Count(b, 0, Len(b) - 1, TOKEN_LOOP_STOP) = 0

Variant(k, p) == 2 * (Len(blob) + 2 - k) + (IF p = "main" THEN 1 ELSE 0)

C18_Step ==
    (call = "eval" /\ NoLoopStop(blob))
        => /\ i' >= i
           /\ Variant(i', pc') < Variant(i, pc)
           /\ Variant(i', pc') >= 0
           /\ pc # "back" /\ pc' # "back"
           /\ (pc = "main" /\ pc' = "main") => i' = i + 1
           /\ (pc = "main" /\ pc' = "fwd") => i' = i
           /\ pc = "fwd" => i' = i + 1 \/ (pc' = "main" /\ i' = i + 2)
           /\ pc' = "done" => (pc = "main" /\ i >= Len(blob))
           /\ pc' = "error"
                  => /\ pc = "fwd"
                     /\ i' = Len(blob)
                     /\ ret'.error = "unterminated loop"
           /\ LET r == Run(Cur, Fuel)
              IN  Returned(r) \/ ~WithinBounds(r)

C18_NoStopTerminates == [][C18_Step]_vars

(* a forward skip has failed after other tokens were dispatched *)
C18_Witness ==
    /\ call = "eval"
    /\ NoLoopStop(blob)
    /\ pc = "error"
    /\ i = Len(blob)
    /\ datPtr = 1
    /\ mem[0] = Num(1)

----------------------------------------------------------------------------
(* C19: a recursive call of parse never returns an error: every nested     *)
(* activation works on a well-balanced inner blob and never fails, its     *)
(* callers wait at the call, and a failure is always the outermost call's  *)
(* own sub-scan running out of input with a non-zero balance.              *)
C19_InnerNeverFails ==
    call = "parse"
        => /\ \A k \in 2..Len(stack) :
                  /\ stack[k].pc # "fail"
                  /\ WellBalanced(stack[k].blob)
                  /\ stack[k - 1].pc = "call"
                  /\ stack[k - 1].balance = 0
           /\ \A k \in 1..Len(stack) :
                  stack[k].pc = "fail"
                      => /\ k = 1
                         /\ stack[k].balance # 0
                         /\ stack[k].i = Len(stack[k].blob)
                         /\ stack[k].ret = ErrorReturn

(* a call two levels down is about to return its result *)
C19_Witness ==
    /\ call = "parse"
    /\ Len(stack) >= 3
    /\ Top.pc = "loop"
    /\ Top.i >= Len(Top.blob)
    /\ Len(Top.res) >= 1

====
